---- MODULE Spec2Model ----
(***************************************************************************)
(* Model of autoencoder.py: the AE module (encoder/decoder stacks of       *)
(* Linear+ReLU layers and the flatten -> encode -> decode -> reshape        *)
(* forward pass) and the train_autoencoder driver with the __main__ entry  *)
(* point.                                                                   *)
(*                                                                          *)
(* Tensors are modelled by what the driver observes of them: their shape,  *)
(* their device, and for loss values a record naming the data the loss was *)
(* computed on and the parameter version it was computed with.  The         *)
(* numerical library (matrix products, autograd, Adam) is external.        *)
(***************************************************************************)
EXTENDS Integers, Sequences, FiniteSets, TLC

\* ---------------------------------------------------------------- bounds
MaxRank == 3
MaxDim == 2
MaxInDim == 2
MaxLatent == 2
MaxLayers == 2
MaxHidden == 2
MaxN == 3
MaxBatch == 3
MaxEpochs == 2
MaxVal == 1

\* ------------------------------------------------- constants of __main__
MainSamples == 10000
MainWidthLo == -1
MainWidthHi == 2
MainSplit == 5
MainLatent == 1
MainHidden == 5
MainEpochs == 20
MainBatch == 250
PrintEvery == 10

\* Python's None in a string-valued slot, and in a shape-valued slot; the
\* outcome "an exception was raised" of a shape computation.  No tensor has
\* a negative dimension, so neither is the shape of a tensor.
None == "None"
NoShape == <<-2>>
Err == <<-1>>
Devices == {"cpu", "cuda"}

\* ------------------------------------------------------- tensor shapes
RECURSIVE Prod(_)
Prod(s) == IF s = <<>> THEN 1 ELSE Head(s) * Prod(Tail(s))

RECURSIVE ProdKnown(_)
ProdKnown(s) ==
  IF s = <<>> THEN 1
  ELSE (IF Head(s) = -1 THEN 1 ELSE Head(s)) * ProdKnown(Tail(s))

HasInfer(t) == \E k \in 1..Len(t) : t[k] = -1

\* Tensor.view(*t): t may hold one -1, inferred from the element count.
\* An inferred dimension next to a zero product of the others is ambiguous
\* and raises.
View(shape, t) ==
  LET numel == Prod(shape)
      newsize == ProdKnown(t)
  IN IF numel = newsize \/ (HasInfer(t) /\ newsize > 0 /\ numel % newsize = 0)
     THEN IF HasInfer(t)
          THEN IF newsize = 0 THEN Err
               ELSE [k \in 1..Len(t) |-> IF t[k] = -1 THEN numel \div newsize ELSE t[k]]
          ELSE t
     ELSE Err

\* nn.Linear(in_f, out_f) applied to a tensor of shape s (acts on the last
\* dimension); nn.ReLU keeps the shape.
Linear(in_f, out_f, s) ==
  IF s = Err THEN Err
  ELSE IF Len(s) >= 1 /\ s[Len(s)] = in_f
       THEN [k \in 1..Len(s) |-> IF k = Len(s) THEN out_f ELSE s[k]]
       ELSE Err

\* The (in, out) pairs of the Linear layers built by AE.__init__ for a stack
\* first -> lst[0] -> ... -> lst[-1] -> last.
LayerDims(first, lst, last) ==
  LET chain == <<first>> \o lst \o <<last>>
  IN [k \in 1..(Len(chain) - 1) |-> <<chain[k], chain[k + 1]>>]

RECURSIVE Sequential(_, _)
Sequential(layers, s) ==
  IF layers = <<>> THEN s
  ELSE Sequential(Tail(layers), Linear(Head(layers)[1], Head(layers)[2], s))

\* Variant: the decoder's last layer is sized by the latent dimension.
dec_model_latent(ae) == LayerDims(ae.latent_dim, ae.dec_lst, ae.latent_dim)

enc_model(ae) == LayerDims(ae.in_dim, ae.enc_lst, ae.latent_dim)

dec_model(ae) == LayerDims(ae.latent_dim, ae.dec_lst, ae.in_dim)

encode(ae, s) == Sequential(enc_model(ae), s)
decode(ae, s) == Sequential(dec_model(ae), s)

Flatten(s) == View(s, <<s[1], -1>>)

ReshapeBack(d, s) == IF d = Err THEN Err ELSE View(d, s)

\* AE.forward on a tensor of shape s: the shape of the result, or Err when
\* some step raises.
forward(ae, s) ==
  LET flat == Flatten(s)
  IN IF flat = Err THEN Err
     ELSE ReshapeBack(decode(ae, encode(ae, flat)), s)

AE(in_dim, latent_dim, enc_lst, dec_lst) ==
  [in_dim |-> in_dim, out_dim |-> in_dim, latent_dim |-> latent_dim,
   enc_lst |-> enc_lst, dec_lst |-> dec_lst]

NoAE == AE(0, 0, <<>>, <<>>)

SeqsUpTo(S, lo, hi) == UNION {[1..n -> S] : n \in lo..hi}

\* ---------------------------------------------------------------- state
VARIABLES
  caller,         \* "fwd" (a call of AE.forward), "api" (a call of train_autoencoder) or "main"
  ae,             \* the AE module's constructor arguments
  x, fpc, flat_x, h, out,                \* AE.forward: argument, position, locals, result
  dataset, val_dataset, device, epochs, batch_size,   \* arguments of train_autoencoder
  DEVICE,         \* the module-level global: a device, or "undefined"
  x_val,          \* __main__: the held-out part of the data (None outside __main__)
  pc, err,        \* position in train_autoencoder / __main__, and the exception raised
  modelDev,       \* device holding the model parameters
  params,         \* parameter version: number of optimizer updates applied
  grads,          \* steps whose backward pass contributed to the stored gradients
  optim_steps,    \* optimizer (Adam) state: its step count
  remaining,      \* loader: samples of the current epoch not yet delivered
  im_batch, reconstruction, loss,
  mse_loss, full_mse_loss, full_val_loss, i, epoch,
  ret,            \* the returned pair (tr_mse, val_mse)
  stdout,         \* lines printed
  iter_ops,       \* history: operations of the current mini-batch iteration
  upd_grads,      \* history: gradients consumed by the latest update, and its step
  backwards,      \* history: number of backward passes
  tr_writes, val_writes   \* history: writes per entry of the two epoch histories

fvars == <<x, fpc, flat_x, h, out>>
args == <<caller, ae, dataset, val_dataset, device, epochs, batch_size, DEVICE, x_val>>
hist == <<iter_ops, upd_grads, backwards, tr_writes, val_writes>>
tvars == <<pc, err, modelDev, params, grads, optim_steps, remaining, im_batch,
           reconstruction, loss, mse_loss, full_mse_loss, full_val_loss, i, epoch,
           ret, stdout>>
vars == <<args, fvars, tvars, hist>>

\* Value of loss_fn on data `on` ("batch", "train", "val") computed at
\* mini-batch step `step` with parameter version `ver`; Zero is the 0.0 a
\* buffer is initialised with.
LossValue(on, step, ver) == [on |-> on, step |-> step, ver |-> ver]
Zero == LossValue("zero", 0, 0)
NoLoss == LossValue(None, 0, 0)

\* A 1-d tensor of loss values on a device; NoTensor is Python's None.
Tensor(data, dev) == [data |-> data, dev |-> dev]
NoTensor == Tensor(<<>>, None)
zeros(n, dev) == Tensor([k \in 1..n |-> Zero], dev)
cpu(t) == Tensor(t.data, "cpu")

\* A data tensor (dataset, mini-batch) as the driver sees it.
Batch(shape, dev) == [shape |-> shape, dev |-> dev]
NoBatch == Batch(NoShape, None)
NoUpdate == [grads |-> {}, step |-> -1]
NoReturn == [tr_mse |-> NoTensor, val_mse |-> NoTensor, returned |-> FALSE]

TrainIdle ==
  /\ pc = "idle" /\ err = None
  /\ modelDev = "cpu" /\ params = 0 /\ grads = {} /\ optim_steps = 0
  /\ remaining = 0 /\ im_batch = NoBatch /\ reconstruction = NoShape /\ loss = NoLoss
  /\ mse_loss = NoTensor /\ full_mse_loss = NoTensor /\ full_val_loss = NoTensor
  /\ i = 0 /\ epoch = 0 /\ ret = NoReturn /\ stdout = <<>>
  /\ iter_ops = <<>> /\ upd_grads = NoUpdate /\ backwards = 0
  /\ tr_writes = <<>> /\ val_writes = <<>>

FwdIdle == fpc = "off" /\ x = NoShape /\ flat_x = NoShape /\ h = NoShape /\ out = NoShape

\* -------------------------------------------------------- AE.forward
Shapes == SeqsUpTo(0..MaxDim, 1, MaxRank)
HiddenLists == SeqsUpTo(1..MaxHidden, 1, MaxLayers)

InitFwd ==
  /\ caller = "fwd"
  /\ ae \in {AE(d, l, e, c) : d \in 0..MaxInDim, l \in 1..MaxLatent,
                              e \in HiddenLists, c \in HiddenLists}
  /\ x \in Shapes
  /\ fpc = "flatten" /\ flat_x = NoShape /\ h = NoShape /\ out = NoShape
  /\ dataset = NoShape /\ val_dataset = NoShape /\ device = "cpu" /\ epochs = 0
  /\ batch_size = 1 /\ DEVICE = "undefined" /\ x_val = NoShape
  /\ TrainIdle

\* flat_x = x.view(x.size(0), -1)
FwdFlatten ==
  /\ fpc = "flatten"
  /\ flat_x' = Flatten(x)
  /\ IF flat_x' = Err THEN fpc' = "raised" /\ out' = Err
                      ELSE fpc' = "encode" /\ out' = out
  /\ UNCHANGED <<x, h, args, tvars, hist>>

\* h = self.encode(flat_x)
FwdEncode ==
  /\ fpc = "encode"
  /\ h' = encode(ae, flat_x)
  /\ IF h' = Err THEN fpc' = "raised" /\ out' = Err
                 ELSE fpc' = "decode" /\ out' = out
  /\ UNCHANGED <<x, flat_x, args, tvars, hist>>

\* self.decode(h)
FwdDecode ==
  /\ fpc = "decode"
  /\ out' = decode(ae, h)
  /\ fpc' = IF out' = Err THEN "raised" ELSE "reshape"
  /\ UNCHANGED <<x, flat_x, h, args, tvars, hist>>

\* .view(x.size())
FwdReshape ==
  /\ fpc = "reshape"
  /\ out' = ReshapeBack(out, x)
  /\ fpc' = IF out' = Err THEN "raised" ELSE "returned"
  /\ UNCHANGED <<x, flat_x, h, args, tvars, hist>>

NextFwd == FwdFlatten \/ FwdEncode \/ FwdDecode \/ FwdReshape

SpecFwd == InitFwd /\ [][NextFwd]_vars

\* ------------------------------------------------- train_autoencoder
Min(a, b) == IF a < b THEN a ELSE b
Max(a, b) == IF a > b THEN a ELSE b

\* len(t[:k]) and len(t[k:]) for a tensor of n rows and a negative k.
SliceTo(n, k) == Max(0, n + k)
SliceFrom(n, k) == n - Max(0, n + k)

SetAt(t, k, v) == Tensor([t.data EXCEPT ![k + 1] = v], t.dev)
Bump(w, k) == [w EXCEPT ![k + 1] = @ + 1]

Raise(e) == pc' = "raised" /\ err' = e

InitApi ==
  /\ caller = "api"
  /\ \E d \in 1..MaxInDim :
       /\ ae = AE(d, MainLatent, <<MainHidden>>, <<MainHidden>>)
       /\ \E n \in 1..MaxN : dataset = <<n, d>>
       /\ val_dataset \in {NoShape} \cup {<<v, d>> : v \in 0..MaxVal}
  /\ device \in Devices
  /\ DEVICE \in Devices \cup {"undefined"}
  /\ epochs \in 0..MaxEpochs
  /\ batch_size \in 1..MaxBatch
  /\ x_val = NoShape
  /\ TrainIdle

\* Running the file as a script: DEVICE = nmas.set_device() is whichever
\* device the machine offers; nothing else is set before the data is built.
InitMain ==
  /\ caller = "main"
  /\ DEVICE \in Devices
  /\ ae = NoAE /\ dataset = NoShape /\ val_dataset = NoShape /\ device = None
  /\ epochs = 0 /\ batch_size = 1 /\ x_val = NoShape
  /\ TrainIdle

Init == (InitApi \/ InitMain) /\ FwdIdle

\* __main__ up to the call: build x, split it, build the AE, and call
\* train_autoencoder(vae, x_tr, DEVICE, epochs=20, batch_size=250, seed=0).
MainCall ==
  /\ caller = "main" /\ pc = "idle" /\ ret.returned = FALSE
  /\ LET width == MainWidthHi - MainWidthLo
         cut == (-MainSamples) \div MainSplit
     IN /\ dataset' = <<SliceTo(MainSamples, cut), width>>
        /\ x_val' = <<SliceFrom(MainSamples, cut), width>>
        /\ ae' = AE(width, MainLatent, <<MainHidden>>, <<MainHidden>>)
  /\ val_dataset' = NoShape
  /\ device' = DEVICE
  /\ epochs' = MainEpochs
  /\ batch_size' = MainBatch
  /\ pc' = "to_device"
  /\ UNCHANGED <<fvars, caller, DEVICE, err, modelDev, params, grads, optim_steps, remaining,
                 im_batch, reconstruction, loss, mse_loss, full_mse_loss, full_val_loss,
                 i, epoch, ret, stdout, hist>>

\* autoencoder.to(DEVICE): reads the module-level name DEVICE.
ToDevice ==
  /\ (caller = "api" /\ pc = "idle") \/ pc = "to_device"
  /\ IF DEVICE = "undefined"
     THEN Raise("NameError") /\ UNCHANGED modelDev
     ELSE pc' = "allocate" /\ modelDev' = DEVICE /\ UNCHANGED err
  /\ UNCHANGED <<fvars, args, params, grads, optim_steps, remaining, im_batch, reconstruction,
                 loss, mse_loss, full_mse_loss, full_val_loss, i, epoch, ret, stdout, hist>>

\* The optimizer, the loader and the three buffers; i = 0.
Allocate ==
  /\ pc = "allocate"
  /\ optim_steps' = 0
  /\ mse_loss' = zeros((epochs * dataset[1]) \div batch_size, device)
  /\ full_mse_loss' = zeros(epochs, device)
  /\ full_val_loss' = IF val_dataset # NoShape THEN zeros(epochs, device) ELSE NoTensor
  /\ i' = 0 /\ epoch' = 0
  /\ tr_writes' = [k \in 1..epochs |-> 0]
  /\ val_writes' = [k \in 1..epochs |-> 0]
  /\ pc' = "epoch"
  /\ UNCHANGED <<fvars, args, err, modelDev, params, grads, remaining, im_batch, reconstruction,
                 loss, ret, stdout, iter_ops, upd_grads, backwards>>

\* for epoch in trange(epochs): enter the next epoch (a fresh pass of the
\* loader over the whole dataset) or leave the loop.
EpochStart ==
  /\ pc = "epoch"
  /\ IF epoch < epochs
     THEN pc' = "loader" /\ remaining' = dataset[1]
     ELSE pc' = "to_cpu" /\ UNCHANGED remaining
  /\ UNCHANGED <<fvars, args, err, modelDev, params, grads, optim_steps, im_batch, reconstruction,
                 loss, mse_loss, full_mse_loss, full_val_loss, i, epoch, ret, stdout, hist>>

\* for im_batch in loader; im_batch = im_batch.to(device).  The loader
\* delivers batch_size samples at a time and a smaller batch at the end
\* (drop_last is left at False).  Which samples the seeded shuffle puts in a
\* batch is seen by the driver only through the loss value, so a batch is
\* its shape and `remaining` counts the samples still to come.
NextBatch ==
  /\ pc = "loader"
  /\ IF remaining = 0
     THEN pc' = "eval_train" /\ UNCHANGED <<remaining, im_batch, iter_ops>>
     ELSE LET n == Min(batch_size, remaining)
          IN /\ im_batch' = Batch(<<n>> \o Tail(dataset), device)
             /\ remaining' = remaining - n
             /\ iter_ops' = <<>>
             /\ pc' = "zero_grad"
  /\ UNCHANGED <<fvars, args, err, modelDev, params, grads, optim_steps, reconstruction, loss,
                 mse_loss, full_mse_loss, full_val_loss, i, epoch, ret, stdout,
                 upd_grads, backwards, tr_writes, val_writes>>

\* Variant: the gradients are not cleared.
ZeroGrad_keep ==
  /\ pc = "zero_grad"
  /\ iter_ops' = Append(iter_ops, "zero_grad")
  /\ pc' = "forward"
  /\ UNCHANGED <<fvars, args, err, modelDev, params, grads, optim_steps, remaining,
                 im_batch, reconstruction, loss, mse_loss, full_mse_loss, full_val_loss,
                 i, epoch, ret, stdout, upd_grads, backwards, tr_writes, val_writes>>

\* optim.zero_grad()
ZeroGrad ==
  /\ pc = "zero_grad"
  /\ grads' = {}
  /\ iter_ops' = Append(iter_ops, "zero_grad")
  /\ pc' = "forward"
  /\ UNCHANGED <<fvars, args, err, modelDev, params, optim_steps, remaining, im_batch,
                 reconstruction, loss, mse_loss, full_mse_loss, full_val_loss, i, epoch,
                 ret, stdout, upd_grads, backwards, tr_writes, val_writes>>

\* Applying the model to a tensor: the shape of the result, or Err when the
\* parameters and the input are on different devices or forward raises.
Apply(t) == IF modelDev # t.dev THEN Err ELSE forward(ae, t.shape)

\* reconstruction = autoencoder(im_batch)
ForwardBatch ==
  /\ pc = "forward"
  /\ reconstruction' = Apply(im_batch)
  /\ IF reconstruction' = Err
     THEN Raise("RuntimeError") /\ UNCHANGED iter_ops
     ELSE pc' = "loss" /\ iter_ops' = Append(iter_ops, "forward") /\ UNCHANGED err
  /\ UNCHANGED <<fvars, args, modelDev, params, grads, optim_steps, remaining, im_batch, loss,
                 mse_loss, full_mse_loss, full_val_loss, i, epoch, ret, stdout,
                 upd_grads, backwards, tr_writes, val_writes>>

\* loss = loss_fn(reconstruction.view(batch_size, -1), target=im_batch.view(batch_size, -1))
ComputeLoss ==
  /\ pc = "loss"
  /\ IF \/ View(reconstruction, <<batch_size, -1>>) = Err
        \/ View(im_batch.shape, <<batch_size, -1>>) = Err
     THEN Raise("RuntimeError") /\ UNCHANGED <<loss, iter_ops>>
     ELSE /\ loss' = LossValue("batch", i, params)
          /\ iter_ops' = Append(iter_ops, "loss")
          /\ pc' = "backward" /\ UNCHANGED err
  /\ UNCHANGED <<fvars, args, modelDev, params, grads, optim_steps, remaining, im_batch,
                 reconstruction, mse_loss, full_mse_loss, full_val_loss, i, epoch, ret,
                 stdout, upd_grads, backwards, tr_writes, val_writes>>

\* loss.backward(): adds this step's gradients to the stored ones.
Backward ==
  /\ pc = "backward"
  /\ grads' = grads \cup {i}
  /\ backwards' = backwards + 1
  /\ iter_ops' = Append(iter_ops, "backward")
  /\ pc' = "step"
  /\ UNCHANGED <<fvars, args, err, modelDev, params, optim_steps, remaining, im_batch,
                 reconstruction, loss, mse_loss, full_mse_loss, full_val_loss, i, epoch,
                 ret, stdout, upd_grads, tr_writes, val_writes>>

\* optim.step(): one parameter update from the stored gradients.
OptimStep ==
  /\ pc = "step"
  /\ params' = params + 1
  /\ optim_steps' = optim_steps + 1
  /\ upd_grads' = [grads |-> grads, step |-> i]
  /\ iter_ops' = Append(iter_ops, "step")
  /\ pc' = "record"
  /\ UNCHANGED <<fvars, args, err, modelDev, grads, remaining, im_batch, reconstruction, loss,
                 mse_loss, full_mse_loss, full_val_loss, i, epoch, ret, stdout,
                 backwards, tr_writes, val_writes>>

\* mse_loss[i] = loss.detach(); i += 1
Record ==
  /\ pc = "record"
  /\ IF i < Len(mse_loss.data)
     THEN /\ mse_loss' = SetAt(mse_loss, i, loss)
          /\ i' = i + 1
          /\ pc' = "loader" /\ UNCHANGED err
     ELSE Raise("IndexError") /\ UNCHANGED <<mse_loss, i>>
  /\ UNCHANGED <<fvars, args, modelDev, params, grads, optim_steps, remaining, im_batch,
                 reconstruction, loss, full_mse_loss, full_val_loss, epoch, ret, stdout,
                 hist>>

\* Under torch.no_grad(): the loss over the whole training set goes into
\* full_mse_loss[epoch].
EvalTrainAt(k) ==
  /\ pc = "eval_train"
  /\ LET fim_batch == Batch(dataset, device)
         freconstruction == Apply(fim_batch)
     IN IF \/ freconstruction = Err
           \/ View(freconstruction, <<fim_batch.shape[1], -1>>) = Err
           \/ View(fim_batch.shape, <<fim_batch.shape[1], -1>>) = Err
        THEN Raise("RuntimeError") /\ UNCHANGED <<full_mse_loss, tr_writes>>
        ELSE /\ full_mse_loss' = SetAt(full_mse_loss, k, LossValue("train", i, params))
             /\ tr_writes' = Bump(tr_writes, k)
             /\ pc' = IF val_dataset # NoShape THEN "eval_val" ELSE "print"
             /\ UNCHANGED err
  /\ UNCHANGED <<fvars, args, modelDev, params, grads, optim_steps, remaining, im_batch,
                 reconstruction, loss, mse_loss, full_val_loss, i, epoch, ret, stdout,
                 iter_ops, upd_grads, backwards, val_writes>>

\* Variant: every epoch's loss goes into entry 0.
EvalTrain_firstEntry == EvalTrainAt(0)

EvalTrain == EvalTrainAt(epoch)

\* Variant: the validation pass also takes an optimizer step.
EvalVal_steps ==
  /\ pc = "eval_val"
  /\ params' = params + 1
  /\ optim_steps' = optim_steps + 1
  /\ full_val_loss' = SetAt(full_val_loss, epoch, LossValue("val", i, params))
  /\ val_writes' = Bump(val_writes, epoch)
  /\ pc' = "print"
  /\ UNCHANGED <<fvars, args, err, modelDev, grads, remaining, im_batch, reconstruction,
                 loss, mse_loss, full_mse_loss, i, epoch, ret, stdout, iter_ops,
                 upd_grads, backwards, tr_writes>>

\* Still under torch.no_grad(), when val_dataset is not None: the loss over
\* the validation set goes into full_val_loss[epoch].
EvalVal ==
  /\ pc = "eval_val"
  /\ LET val_im_batch == Batch(val_dataset, device)
         val_reconstruction == Apply(val_im_batch)
     IN IF \/ val_reconstruction = Err
           \/ View(val_reconstruction, <<val_im_batch.shape[1], -1>>) = Err
           \/ View(val_im_batch.shape, <<val_im_batch.shape[1], -1>>) = Err
        THEN Raise("RuntimeError") /\ UNCHANGED <<full_val_loss, val_writes>>
        ELSE /\ full_val_loss' = SetAt(full_val_loss, epoch, LossValue("val", i, params))
             /\ val_writes' = Bump(val_writes, epoch)
             /\ pc' = "print"
             /\ UNCHANGED err
  /\ UNCHANGED <<fvars, args, modelDev, params, grads, optim_steps, remaining, im_batch,
                 reconstruction, loss, mse_loss, full_mse_loss, i, epoch, ret, stdout,
                 iter_ops, upd_grads, backwards, tr_writes>>

Line(label, e, value) == [label |-> label, epoch |-> e, value |-> value]
Scalar(t, k) == Tensor(<<t.data[k + 1]>>, t.dev)

\* if epoch % 10 == 0: print the epoch's losses; then the next epoch.
PrintProgress ==
  /\ pc = "print"
  /\ stdout' = IF epoch % PrintEvery = 0
               THEN stdout
                    \o <<Line("MSE Train Loss", epoch, Scalar(full_mse_loss, epoch))>>
                    \o (IF val_dataset # NoShape
                        THEN <<Line("MSE Val Loss", epoch, Scalar(full_val_loss, epoch))>>
                        ELSE <<>>)
               ELSE stdout
  /\ epoch' = epoch + 1
  /\ pc' = "epoch"
  /\ UNCHANGED <<fvars, args, err, modelDev, params, grads, optim_steps, remaining, im_batch,
                 reconstruction, loss, mse_loss, full_mse_loss, full_val_loss, i, ret,
                 hist>>

\* Variant: the model is left on the training device.
ToCpu_skip ==
  /\ pc = "to_cpu"
  /\ pc' = "return"
  /\ UNCHANGED <<fvars, args, err, modelDev, params, grads, optim_steps, remaining,
                 im_batch, reconstruction, loss, mse_loss, full_mse_loss, full_val_loss,
                 i, epoch, ret, stdout, hist>>

\* autoencoder.to('cpu')
ToCpu ==
  /\ pc = "to_cpu"
  /\ modelDev' = "cpu"
  /\ pc' = "return"
  /\ UNCHANGED <<fvars, args, err, params, grads, optim_steps, remaining, im_batch,
                 reconstruction, loss, mse_loss, full_mse_loss, full_val_loss, i, epoch,
                 ret, stdout, hist>>

\* tr_mse = full_mse_loss.cpu(); val_mse = full_val_loss.cpu() or None;
\* return tr_mse, val_mse
Return ==
  /\ pc = "return"
  /\ ret' = [tr_mse |-> cpu(full_mse_loss),
             val_mse |-> IF val_dataset # NoShape THEN cpu(full_val_loss) ELSE NoTensor,
             returned |-> TRUE]
  /\ pc' = IF caller = "main" THEN "main_print" ELSE "done"
  /\ UNCHANGED <<fvars, args, err, modelDev, params, grads, optim_steps, remaining, im_batch,
                 reconstruction, loss, mse_loss, full_mse_loss, full_val_loss, i, epoch,
                 stdout, hist>>

\* __main__ after the call: loss, val_loss = ...; print both.
MainPrint ==
  /\ pc = "main_print"
  /\ stdout' = stdout \o <<Line("Final Training Loss", epochs, ret.tr_mse),
                           Line("Final Validation Loss", epochs, ret.val_mse)>>
  /\ pc' = "done"
  /\ UNCHANGED <<fvars, args, err, modelDev, params, grads, optim_steps, remaining, im_batch,
                 reconstruction, loss, mse_loss, full_mse_loss, full_val_loss, i, epoch,
                 ret, hist>>

Next ==
  \/ MainCall \/ ToDevice \/ Allocate \/ EpochStart \/ NextBatch \/ ZeroGrad
  \/ ForwardBatch \/ ComputeLoss \/ Backward \/ OptimStep \/ Record
  \/ EvalTrain \/ EvalVal \/ PrintProgress \/ ToCpu \/ Return \/ MainPrint

Spec == Init /\ [][Next]_vars

\* ============================================================ properties
Running == caller # "fwd" /\ pc \notin {"idle", "to_device", "allocate"} /\ err # "NameError"

\* Number of mini-batches the loader delivers per epoch: ceil(N / batch_size).
BatchesPerEpoch == (dataset[1] + batch_size - 1) \div batch_size

\* ---- C1
ValidInput == caller = "fwd" /\ Prod(Tail(x)) = ae.in_dim

\* C1 as stated: for every input whose non-batch dimensions multiply to
\* in_dim, forward does not raise and returns a tensor of x's shape.
C1_AnyValidInput ==
  ValidInput => /\ fpc # "raised"
                /\ (fpc = "returned" => out = x)

\* C1 amended: for every input with at least one example whose non-batch
\* dimensions multiply to in_dim, forward flattens to examples x in_dim,
\* encodes to examples x latent_dim, decodes to examples x in_dim and
\* returns a tensor of x's shape, without raising.
C1_NonEmptyInput ==
  (ValidInput /\ x[1] >= 1) =>
    /\ fpc # "raised"
    /\ (fpc \in {"encode", "decode", "reshape", "returned"} => flat_x = <<x[1], ae.in_dim>>)
    /\ (fpc \in {"decode", "reshape", "returned"} => h = <<x[1], ae.latent_dim>>)
    /\ (fpc = "reshape" => out = <<x[1], ae.in_dim>>)
    /\ (fpc = "returned" => out = x)

C1_Witness ==
  /\ ValidInput /\ fpc = "returned" /\ out = x
  /\ Len(x) = 3 /\ x[1] = 2 /\ ae.in_dim = 2 /\ ae.latent_dim = 1
  /\ Len(ae.enc_lst) = 2 /\ Len(ae.dec_lst) = 2

\* ---- C2
\* C2: the per-epoch evaluation block (training loss, validation loss)
\* leaves the parameters, the gradients and the optimizer state unchanged,
\* and the parameters change only in the optimizer step of a mini-batch.
C2_EvalLeavesModel ==
  [][/\ pc \in {"eval_train", "eval_val"} =>
          /\ params' = params /\ grads' = grads /\ optim_steps' = optim_steps
     /\ params' # params => pc = "step"]_vars

C2_Witness ==
  /\ pc = "print" /\ epoch = 1 /\ val_dataset # NoShape
  /\ params >= 2 /\ grads # {}
  /\ val_writes[epoch + 1] = 1 /\ tr_writes[epoch + 1] = 1

\* ---- C3
EpochEntry(on, e) == LossValue(on, (e + 1) * BatchesPerEpoch, (e + 1) * BatchesPerEpoch)

HistoryOk(t, writes, on) ==
  /\ Len(t.data) = epochs
  /\ \A e \in 0..(epochs - 1) :
       /\ writes[e + 1] <= 1
       /\ e < epoch => writes[e + 1] = 1
       /\ e > epoch => writes[e + 1] = 0
       /\ t.data[e + 1] = IF writes[e + 1] = 1 THEN EpochEntry(on, e) ELSE Zero

C4_ReturnsStepLosses ==
  ret.returned =>
    /\ Len(ret.tr_mse.data) = i
    /\ \A k \in 0..(i - 1) : ret.tr_mse.data[k + 1] = mse_loss.data[k + 1]

\* ---- C5
\* C5 as stated: whenever the model is about to be applied (to a mini-batch,
\* to the training set, to the validation set) its parameters and the input
\* are on the device passed as `device`.
C5_TrainsOnDeviceArgument ==
  /\ pc = "forward" => modelDev = device /\ im_batch.dev = device
  /\ pc \in {"eval_train", "eval_val"} => modelDev = device

\* ---- C6
FinalLine(label, on) ==
  \E k \in 1..Len(stdout) :
    /\ stdout[k].label = label
    /\ stdout[k].value # NoTensor
    /\ \A j \in 1..Len(stdout[k].value.data) : stdout[k].value.data[j].on = on

\* C6 as stated: the entry point trains on the training part with the
\* held-out part as validation set, and both final losses it prints are
\* loss values of the run, the validation one computed on the held-out part.
C6_MainPrintsBothLosses ==
  caller = "main" =>
    /\ pc # "idle" => val_dataset = x_val
    /\ pc = "done" => /\ FinalLine("Final Training Loss", "train")
                      /\ FinalLine("Final Validation Loss", "val")

\* ---- C8
IterationOrder == <<"zero_grad", "forward", "loss", "backward", "step">>

\* C8: each mini-batch iteration runs clear gradients, forward, loss,
\* backward, optimizer step in that order; one update follows each backward
\* pass; an update consumes the gradients of its own step only; on return
\* the number of updates is epochs times the mini-batches per epoch.
C8_UpdatePerBatch ==
  Running =>
    /\ pc = "record" => iter_ops = IterationOrder
    /\ \E n \in 0..Len(iter_ops) : iter_ops = SubSeq(IterationOrder, 1, n)
    /\ backwards = params + (IF pc = "step" THEN 1 ELSE 0)
    /\ optim_steps = params
    /\ params > 0 => upd_grads.grads = {upd_grads.step}
    /\ ret.returned => params = epochs * BatchesPerEpoch

C8_Witness ==
  /\ caller = "api" /\ ret.returned /\ epochs = 2 /\ BatchesPerEpoch = 2
  /\ params = 4 /\ upd_grads = [grads |-> {3}, step |-> 3]

\* ---- C9
\* C9 as stated: at every write mse_loss[i] the index is inside the buffer.
C9_StepIndexInBuffer ==
  pc = "record" => i < Len(mse_loss.data)

\* ---- C10
\* C10: on return the model is on the CPU and the returned histories are CPU
\* tensors; the model is moved to the CPU only by the step after the loop,
\* when every epoch has been evaluated.
C10_CpuAfterTraining ==
  /\ [](ret.returned =>
          /\ modelDev = "cpu"
          /\ ret.tr_mse.dev = "cpu"
          /\ ret.val_mse # NoTensor => ret.val_mse.dev = "cpu")
  /\ [][(modelDev # "cpu" /\ modelDev' = "cpu") =>
          /\ pc = "to_cpu" /\ epoch = epochs
          /\ \A e \in 0..(epochs - 1) : tr_writes[e + 1] = 1
          /\ val_dataset # NoShape => \A e \in 0..(epochs - 1) : val_writes[e + 1] = 1]_vars

C10_Witness ==
  /\ caller = "api" /\ ret.returned /\ DEVICE = "cuda" /\ device = "cuda"
  /\ epochs = 2 /\ val_dataset # NoShape /\ modelDev = "cpu"
  /\ ret.val_mse.dev = "cpu" /\ full_val_loss.dev = "cuda"
====
